---- MODULE Spec2Model ----
(***************************************************************************)
(* Model of src/stream.py: a Streamlit page that validates two API keys,   *)
(* takes a company name, runs a three-task crew (crew.kickoff) and keeps   *)
(* a session history of the runs.                                          *)
(*                                                                         *)
(* One script run of main() is one step: Streamlit re-executes the whole   *)
(* script for every user interaction, so every action below is "the user   *)
(* does X, then main() runs top to bottom" (twice when main() calls        *)
(* st.rerun()).  A script run is taken to run to completion.               *)
(*                                                                         *)
(* Text is a sequence of one-character strings, so that strip(), replace() *)
(* and substring tests are computed.  Time is in milliseconds; a stored    *)
(* duration is in hundredths of a second (round(duration, 2)).  The        *)
(* 'timestamp' field of a history entry is display-only and is left out.   *)
(***************************************************************************)
EXTENDS Integers, Sequences, FiniteSets, TLC

VARIABLES
    env,               \* os.environ restricted to the required keys
    analysis_history,  \* st.session_state.analysis_history
    current_analysis,  \* st.session_state.current_analysis: <<>> (None) or <<entry>>
    example_company,   \* st.session_state.example_company: <<>> (unset) or <<name>>
    files,             \* the three task output files in the working directory
    company_name,      \* value of the "Company Name" text input
    ui                 \* what the last script run computed and put on the page

vars == <<env, analysis_history, current_analysis, example_company, files, company_name, ui>>

-----------------------------------------------------------------------------
(* Bounds of the model *)

MaxHistory == 2        \* Spec: runs recorded per session
MaxRecentHistory == 6  \* SpecRecent: runs recorded per session
MaxExtraMs == 0        \* time a run takes beyond the progress animation, ms

(* Program constants *)

RecentN == 5           \* analysis_history[-5:]
ProgressSteps == 100   \* for i in range(100)
SleepMs == 100         \* time.sleep(0.1)

-----------------------------------------------------------------------------
(* Text helpers: Python str methods *)

Whitespace == {" ", "\t", "\n"}

RECURSIVE lstrip(_)
lstrip(s) == IF s # <<>> /\ Head(s) \in Whitespace THEN lstrip(Tail(s)) ELSE s

RECURSIVE rstrip(_)
rstrip(s) ==
    IF s # <<>> /\ s[Len(s)] \in Whitespace THEN rstrip(SubSeq(s, 1, Len(s) - 1)) ELSE s

\* str.strip()
strip(s) == rstrip(lstrip(s))

\* str.replace(' ', '_')
replace_spaces(s) == [i \in 1..Len(s) |-> IF s[i] = " " THEN "_" ELSE s[i]]

\* truthiness of a str
Truthy(s) == Len(s) > 0

-----------------------------------------------------------------------------
(* Input domains *)

\* what the user can have typed in the text input
Names == { <<>>, <<" ">>, <<"T">>, <<" ", "A", " ", "B">> }

\* the kinds of final text a crew returns; str(result) is that text, written
\* for the company of the run (kickoff_result below)
Results == { "proposal" }

\* os.getenv(key): None, or the string the variable is set to
None == "None"
EnvValues == { None, "", "sk-1" }

-----------------------------------------------------------------------------
(* validate_api_keys *)

required_keys == <<"GEMINI_API_KEY", "SERPER_API_KEY">>

\* a test for None only: os.getenv(key) is None
GetenvIsNone(e, key) == e[key] = None

\* os.getenv(key) is falsy: the variable is unset, or set to the empty string
GetenvFalsy(e, key) == e[key] = None \/ e[key] = ""

RECURSIVE MissingKeys(_, _)
MissingKeys(e, keys) ==
    IF keys = <<>> THEN <<>>
    ELSE (IF GetenvFalsy(e, Head(keys)) THEN <<Head(keys)>> ELSE <<>>)
         \o MissingKeys(e, Tail(keys))

\* returns (len(missing_keys) == 0, missing_keys)
validate_api_keys(e) ==
    LET missing_keys == MissingKeys(e, required_keys)
    IN  <<Len(missing_keys) = 0, missing_keys>>

\* load_dotenv() at the top of the script, override=False: a variable that is
\* already in os.environ keeps its value, an unset one takes the .env file's
\* value (dot[k] = None: the file does not name k).
load_dotenv(e, dot) ==
    [k \in DOMAIN e |-> IF e[k] = None THEN dot[k] ELSE e[k]]

KeySet == {required_keys[i] : i \in 1..Len(required_keys)}
Envs == [KeySet -> EnvValues]

-----------------------------------------------------------------------------
(* save_analysis_to_history *)

\* round(duration, 2) of a duration given in ms, as hundredths of a second
\* (round half to even)
Round2(ms) ==
    LET q == ms \div 10
        r == ms % 10
    IN  IF r < 5 THEN q
        ELSE IF r > 5 THEN q + 1
        ELSE IF q % 2 = 0 THEN q ELSE q + 1

\* an entry that stores the stripped company name
analysis_data_stripped(history, name, result, duration) ==
    [company  |-> strip(name),
     duration |-> Round2(duration),
     result   |-> result,
     id       |-> Len(history)]

\* an entry whose id counts the earlier entries of the same company
analysis_data_per_company(history, name, result, duration) ==
    [company  |-> name,
     duration |-> Round2(duration),
     result   |-> result,
     id       |-> Cardinality({i \in 1..Len(history) : history[i].company = name})]

analysis_data(history, name, result, duration) ==
    [company  |-> name,
     duration |-> Round2(duration),
     result   |-> result,
     id       |-> Len(history)]

\* a history that takes the new entry at the front: insert(0, analysis_data)
save_analysis_at_front(history, name, result, duration) ==
    <<analysis_data(history, name, result, duration)>> \o history

save_analysis_to_history(history, name, result, duration) ==
    Append(history, analysis_data(history, name, result, duration))

\* reversed(st.session_state.analysis_history[-5:])
LastN(history, n) ==
    SubSeq(history, (IF Len(history) > n THEN Len(history) - n ELSE 0) + 1, Len(history))

Reversed(s) == [i \in 1..Len(s) |-> s[Len(s) + 1 - i]]

\* the first n entries instead of the last n: reversed(history[:5])
RecentOfFirst(history, n) ==
    Reversed(SubSeq(history, 1, IF Len(history) > n THEN n ELSE Len(history)))

Recent(history, n) == Reversed(LastN(history, n))

-----------------------------------------------------------------------------
(* create_agents_and_tasks: the f-strings are the fixed text around the     *)
(* company name; fixed text is kept as one token per piece.                 *)

researcher_agent(name) ==
    [role |-> "Senior Market Research Analyst",
     goal |-> <<"Conduct comprehensive research on ">> \o name
              \o <<" including industry analysis, competitive landscape, business model, recent developments, and strategic initiatives.">>]

analyst_agent ==
    [role |-> "AI/ML Strategy Consultant",
     goal |-> <<"Analyze research findings to identify high-impact, feasible AI/ML use cases tailored to the company's specific context, capabilities, and industry requirements.">>]

proposal_agent ==
    [role |-> "Technical Proposal Specialist",
     goal |-> <<"Create a comprehensive, actionable AI/ML implementation proposal with detailed recommendations, timelines, and success metrics.">>]

research_task(name) ==
    [description |-> <<"Conduct comprehensive research on ">> \o name
                     \o <<". Your research should include: ...">>,
     agent       |-> researcher_agent(name),
     output_file |-> "research_findings.md"]

\* a description that is no f-string: the company name is not filled in
analysis_task_unnamed(name) ==
    [description |-> <<"Based on the research findings, identify and analyze potential AI/ML use cases for ",
                       "{company_name}", ". For each use case: ...">>,
     agent       |-> analyst_agent,
     output_file |-> "use_case_analysis.md"]

analysis_task(name) ==
    [description |-> <<"Based on the research findings, identify and analyze potential AI/ML use cases for ">>
                     \o name \o <<". For each use case: ...">>,
     agent       |-> analyst_agent,
     output_file |-> "use_case_analysis.md"]

proposal_task(name) ==
    [description |-> <<"Create a professional AI/ML implementation proposal for ">>
                     \o name \o <<" that includes: ...">>,
     agent       |-> proposal_agent,
     output_file |-> "final_proposal.md"]

\* the six values returned, as the two lists main() hands to Crew(...)
create_agents_and_tasks(name) ==
    [agents |-> <<researcher_agent(name), analyst_agent, proposal_agent>>,
     tasks  |-> <<research_task(name), analysis_task(name), proposal_task(name)>>]

\* Crew(agents=[...], tasks=[...])
Crew(made) == [agents |-> made.agents, tasks |-> made.tasks]

NoCrew == [agents |-> <<>>, tasks |-> <<>>]

-----------------------------------------------------------------------------
(* The output files *)

ResearchFile == "research_findings.md"
AnalysisFile == "use_case_analysis.md"
ProposalFile == "final_proposal.md"

\* in the order the tasks write them
OutputFiles == <<ResearchFile, AnalysisFile, ProposalFile>>
FileSet == {OutputFiles[i] : i \in 1..Len(OutputFiles)}

\* a file on disk: missing, or present with bytes that decode as UTF-8 to
\* 'text', or present with bytes that do not
NoFile == [exists |-> FALSE, utf8 |-> FALSE, text |-> <<>>]
GarbledFile == [exists |-> TRUE, utf8 |-> FALSE, text |-> <<>>]
TextFile(t) == [exists |-> TRUE, utf8 |-> TRUE, text |-> t]

\* with open(path, "r", encoding='utf-8') as f: f.read()
ReadFile(fs, path) ==
    IF ~fs[path].exists THEN [status |-> "FileNotFoundError", data |-> <<>>]
    ELSE IF ~fs[path].utf8 THEN [status |-> "UnicodeDecodeError", data |-> <<>>]
    ELSE [status |-> "ok", data |-> fs[path].text]

-----------------------------------------------------------------------------
(* crew.kickoff: the external orchestrator.  It runs the tasks in order;    *)
(* 'done' tasks finish before it returns (done = 3) or raises (done < 3).   *)
(* A finished task writes its output file ("written"), fails to leave one   *)
(* ("skipped": the old file, if any, stays) or leaves bytes that are not    *)
(* UTF-8 ("garbled").  The text written is the report for that company,     *)
(* modelled by the company name.  'init' FALSE: LLM(...) or a tool          *)
(* constructor raises before the crew is built.  In a run that raises, the  *)
(* tasks that finished are taken to have written their files.               *)

Dispositions == {"written", "skipped", "garbled"}

OrchOutcomes ==
    { o \in [init : BOOLEAN, done : 0..3, disp : [1..3 -> Dispositions], result : Results] :
        /\ \A i \in 1..3 : i > o.done => o.disp[i] = "skipped"
        /\ o.done < 3 => o.disp \in [1..3 -> {"written", "skipped"}]
        /\ ~o.init => o.done = 0 }

\* str(result) of the value crew.kickoff returns
kickoff_result(name, o) == <<o.result, " for ">> \o name

kickoff_files(fs, name, o) ==
    [f \in FileSet |->
        LET i == CHOOSE j \in 1..3 : OutputFiles[j] = f
        IN  IF o.disp[i] = "written" THEN TextFile(name)
            ELSE IF o.disp[i] = "garbled" THEN GarbledFile
            ELSE fs[f]]

-----------------------------------------------------------------------------
(* main(): the results tabs of a run whose crew.kickoff returned            *)
(* (tab2, tab3, tab4 of the try block).  A FileNotFoundError is handled at  *)
(* each read; any other exception leaves the tabs for the except branch of  *)
(* the try block, and what was put on the page before it stays there.       *)

download(fs, path, name, suffix) ==
    [file      |-> path,
     data      |-> ReadFile(fs, path).data,
     file_name |-> replace_spaces(name) \o <<suffix>>]

results_tabs(fs, name) ==
    LET research == ReadFile(fs, ResearchFile).status
        analysis == ReadFile(fs, AnalysisFile).status
        proposal == ReadFile(fs, ProposalFile).status
        \* the read that raises something other than FileNotFoundError
        raise2   == research = "UnicodeDecodeError"
        raise3   == ~raise2 /\ analysis = "UnicodeDecodeError"
        raise4   == ~raise2 /\ ~raise3 /\ proposal = "UnicodeDecodeError"
        in_tab3  == ~raise2
        in_tab4  == ~raise2 /\ ~raise3
        in_col2  == in_tab4 /\ ~raise4
    IN  [raised    |-> raise2 \/ raise3 \/ raise4,
         warnings  |->
            (IF research = "FileNotFoundError" THEN {ResearchFile} ELSE {})
            \cup (IF in_tab3 /\ analysis = "FileNotFoundError" THEN {AnalysisFile} ELSE {}),
         rendered  |->
            (IF research = "ok"
                THEN {[file |-> ResearchFile, data |-> ReadFile(fs, ResearchFile).data]}
                ELSE {})
            \cup (IF in_tab3 /\ analysis = "ok"
                THEN {[file |-> AnalysisFile, data |-> ReadFile(fs, AnalysisFile).data]}
                ELSE {}),
         downloads |->
            (IF in_tab4 /\ proposal = "ok"
                THEN {download(fs, ProposalFile, name, "_AI_ML_Proposal.md")} ELSE {})
            \cup (IF in_col2 /\ research = "ok"
                THEN {download(fs, ResearchFile, name, "_Research.md")} ELSE {})
            \cup (IF in_col2 /\ analysis = "ok"
                THEN {download(fs, AnalysisFile, name, "_Analysis.md")} ELSE {})]

-----------------------------------------------------------------------------
(* main(): one script run.                                                  *)
(*   s       the session before the run (a record of the variables)         *)
(*   name    the text input's value                                         *)
(*   click   the button the user clicked: "none", "generate", "view",       *)
(*           "new", "example"                                               *)
(*   view_id the id in the key of the clicked View Results button           *)
(*   example the company of the clicked example button                      *)
(*   dot     the .env file; o, extra: what the orchestrator and the clock   *)
(*           do in this run                                                 *)
(* The result is the session after the run, with 'rerun' TRUE when the run  *)
(* ended in st.rerun().                                                     *)

\* a run control that checks the credentials only
run_allowed_keys_only(api_valid, name) == api_valid

\* disabled=not (api_valid and company_name.strip())
run_allowed(api_valid, name) == api_valid /\ Truthy(strip(name))

\* if run_button and company_name.strip():
run_taken(run_button, name) == run_button /\ Truthy(strip(name))

\* an except branch that swallows the exception
except_branch_silent(page) == page

\* except Exception as e: st.error(...); st.exception(e)
except_branch(page) == [page EXCEPT !.error = TRUE]

\* the sidebar part of the page, and the page before the main column is drawn
sidebar_ui(e, name, history) ==
    LET v == validate_api_keys(e)
    IN  [api_valid    |-> v[1],
         missing_keys |-> v[2],
         run_enabled  |-> run_allowed(v[1], name),
         sidebar      |-> IF history # <<>> THEN Recent(history, RecentN) ELSE <<>>,
         view         |-> "welcome",
         kickoffs     |-> 0,
         crew         |-> NoCrew,
         success      |-> FALSE,
         error        |-> FALSE,
         result       |-> <<>>,
         warnings     |-> {},
         rendered     |-> {},
         downloads    |-> {}]

\* the try block of the run branch and its except branch
run_branch(s, e, name, o, extra, page) ==
    LET start_time == 0
        crew       == Crew(create_agents_and_tasks(name))
        end_time   == start_time + ProgressSteps * SleepMs + extra
        duration   == end_time - start_time
        after      == kickoff_files(s.files, name, o)
        tabs       == results_tabs(after, name)
    IN  IF ~o.init THEN
            \* LLM(...) or a tool constructor raised
            [s EXCEPT !.env = e, !.company_name = name,
                      !.ui = except_branch([page EXCEPT !.view = "run"])]
        ELSE IF o.done < 3 THEN
            \* crew.kickoff raised
            [s EXCEPT !.env = e, !.company_name = name, !.files = after,
                      !.ui = except_branch([page EXCEPT !.view = "run", !.kickoffs = 1,
                                                          !.crew = crew])]
        ELSE
            [s EXCEPT !.env = e, !.company_name = name, !.files = after,
                      !.analysis_history =
                          save_analysis_to_history(s.analysis_history, name, kickoff_result(name, o), duration),
                      !.ui = LET shown == [page EXCEPT !.view = "run", !.kickoffs = 1,
                                                       !.crew = crew, !.success = TRUE,
                                                       !.result = <<kickoff_result(name, o)>>,
                                                       !.warnings = tabs.warnings,
                                                       !.rendered = tabs.rendered,
                                                       !.downloads = tabs.downloads]
                             IN  IF tabs.raised THEN except_branch(shown) ELSE shown]

main(s, name, click, view_id, example, dot, o, extra) ==
    LET e          == load_dotenv(s.env, dot)
        page       == sidebar_ui(e, name, s.analysis_history)
        run_button == click = "generate"
        \* if st.button("View Results", key=f"view_{analysis['id']}")
        viewed     == {i \in 1..Len(page.sidebar) :
                          click = "view" /\ page.sidebar[i].id = view_id}
        current    == IF viewed # {}
                         THEN <<page.sidebar[CHOOSE i \in viewed : TRUE]>>
                         ELSE s.current_analysis
        idle       == [s EXCEPT !.env = e, !.company_name = name,
                                !.current_analysis = current, !.ui = page]
                      @@ [rerun |-> FALSE]
    IN  IF run_taken(run_button, name) THEN
            [run_branch(s, e, name, o, extra, page) EXCEPT !.current_analysis = current]
            @@ [rerun |-> FALSE]
        ELSE IF current # <<>> THEN
            IF click = "new"
                THEN [idle EXCEPT !.current_analysis = <<>>, !.rerun = TRUE,
                                  !.ui = [page EXCEPT !.view = "history"]]
                ELSE [idle EXCEPT !.ui = [page EXCEPT !.view = "history",
                                                      !.result = <<current[1].result>>]]
        ELSE
            IF click = "example"
                THEN [idle EXCEPT !.example_company = <<example>>, !.rerun = TRUE]
                ELSE idle

\* st.rerun(): the script runs again at once, with no button clicked
main_with_rerun(s, name, click, view_id, example, dot, o, extra) ==
    LET first == main(s, name, click, view_id, example, dot, o, extra)
    IN  IF first.rerun
            THEN main([first EXCEPT !.rerun = FALSE], name, "none", -1, "", dot, o, extra)
            ELSE first

-----------------------------------------------------------------------------
(* The session as a state machine *)

Session ==
    [env              |-> env,
     analysis_history |-> analysis_history,
     current_analysis |-> current_analysis,
     example_company  |-> example_company,
     files            |-> files,
     company_name     |-> company_name,
     ui               |-> ui]

Becomes(n) ==
    /\ env' = n.env
    /\ analysis_history' = n.analysis_history
    /\ current_analysis' = n.current_analysis
    /\ example_company' = n.example_company
    /\ files' = n.files
    /\ company_name' = n.company_name
    /\ ui' = n.ui

example_companies == <<"Tesla", "Netflix", "Shopify", "Zoom", "Peloton", "DoorDash">>

\* the example buttons the model clicks
ExampleClicks == {example_companies[1]}

\* the .env files that differ in effect: an entry for a variable that is
\* already set is ignored by load_dotenv
DotEnvs(e) == {dot \in Envs : \A k \in KeySet : e[k] # None => dot[k] = None}

\* an orchestrator outcome for the interactions that start no run
NoRun ==
    [init |-> FALSE, done |-> 0, disp |-> [i \in 1..3 |-> "skipped"], result |-> "proposal"]

\* what the orchestrator and the clock can do in a run for 'name': nothing when
\* no run starts, and the clock is read again only after crew.kickoff returned
OutcomesFor(name, outcomes) == IF Truthy(strip(name)) THEN outcomes ELSE {NoRun}
ExtrasFor(o) == IF o.done = 3 THEN 0..MaxExtraMs ELSE {0}

\* initialize_session_state, and the first script run when the page is opened:
\* empty text input, nothing clicked
Init ==
    \E e \in Envs, dot \in Envs :
        LET fresh == [env              |-> e,
                      analysis_history |-> <<>>,
                      current_analysis |-> <<>>,
                      example_company  |-> <<>>,
                      files            |-> [f \in FileSet |-> NoFile],
                      company_name     |-> <<>>,
                      ui               |-> sidebar_ui(e, <<>>, <<>>)]
            n == main_with_rerun(fresh, <<>>, "none", -1, "", dot, NoRun, 0)
        IN  /\ env = n.env
            /\ analysis_history = n.analysis_history
            /\ current_analysis = n.current_analysis
            /\ example_company = n.example_company
            /\ files = n.files
            /\ company_name = n.company_name
            /\ ui = n.ui

\* the user edits the company name (and leaves the field)
TypeCompany(name) ==
    /\ name # company_name
    /\ \E dot \in DotEnvs(env) :
        \E n \in {main_with_rerun(Session, name, "none", -1, "", dot, NoRun, 0)} : Becomes(n)

\* the user clicks "Generate Proposal", which the page shows enabled.  An edit
\* of the company name can reach the script in the same run; only an edit that
\* blanks the name is taken here, any other is TypeCompany before the click.
ClickGenerate(name, o, extra) ==
    /\ ui.run_enabled
    /\ name = company_name \/ ~Truthy(strip(name))
    /\ \E dot \in DotEnvs(env) :
        \E n \in {main_with_rerun(Session, name, "generate", -1, "", dot, o, extra)} : Becomes(n)

\* the user clicks "View Results" of an entry the sidebar shows
ClickView(id) ==
    /\ \E i \in 1..Len(ui.sidebar) : ui.sidebar[i].id = id
    /\ \E dot \in DotEnvs(env) :
        \E n \in {main_with_rerun(Session, company_name, "view", id, "", dot, NoRun, 0)} : Becomes(n)

\* the user clicks "Run New Analysis", shown under a historical analysis
ClickRunNew ==
    /\ ui.view = "history"
    /\ \E dot \in DotEnvs(env) :
        \E n \in {main_with_rerun(Session, company_name, "new", -1, "", dot, NoRun, 0)} : Becomes(n)

\* the user clicks an example company on the welcome page
ClickExample(company) ==
    /\ ui.view = "welcome"
    /\ \E dot \in DotEnvs(env) :
        \E n \in {main_with_rerun(Session, company_name, "example", -1, company, dot, NoRun, 0)} : Becomes(n)

\* the user clicks a download button of the Export tab: the script runs again
\* with nothing clicked
ClickDownload(d) ==
    /\ d \in ui.downloads
    /\ \E dot \in DotEnvs(env) :
        \E n \in {main_with_rerun(Session, company_name, "none", -1, "", dot, NoRun, 0)} : Becomes(n)

\* the user's interactions, for the names the user types, the outcomes the
\* orchestrator has and the number of runs recorded in a session
Interact(names, outcomes, max_history) ==
    \/ \E name \in names : TypeCompany(name)
    \/ /\ Len(analysis_history) < max_history
       /\ \E name \in names : \E o \in OutcomesFor(name, outcomes) : \E extra \in ExtrasFor(o) :
            ClickGenerate(name, o, extra)
    \/ \E id \in 0..max_history : ClickView(id)
    \/ ClickRunNew
    \/ \E company \in ExampleClicks : ClickExample(company)
    \/ \E d \in ui.downloads : ClickDownload(d)

Next == Interact(Names, OrchOutcomes, MaxHistory)

Spec == Init /\ [][Next]_vars

\* A long session of runs that all succeed and write their three files
RecentNames == { <<>>, <<"T">>, <<"N">> }

RecentOutcomes == { o \in OrchOutcomes : o.done = 3 /\ \A i \in 1..3 : o.disp[i] = "written" }

NextRecent == Interact(RecentNames, RecentOutcomes, MaxRecentHistory)

SpecRecent == Init /\ [][NextRecent]_vars

-----------------------------------------------------------------------------
(* Properties *)

\* 'sub' occurs in 'text' as a substring
Contains(text, sub) ==
    \E i \in 0..(Len(text) - Len(sub)) : SubSeq(text, i + 1, i + Len(sub)) = sub

\* both required credentials are usable: set, and not to the empty string
CredentialsValid(e) == \A k \in KeySet : e[k] # None /\ e[k] # ""

\* the last script run was a run of the pipeline that reached crew.kickoff
Kicked(page) == page.view = "run" /\ page.kickoffs > 0

\* C1: a script run calls crew.kickoff only when both credentials are valid and
\* the company name is non-empty after stripping whitespace; when a credential
\* is missing or the name is blank, the page shows the run control disabled,
\* crew.kickoff is not called and the history gets no entry.
C1_RunGated ==
    [][ LET ready == CredentialsValid(env') /\ strip(company_name') # <<>>
        IN  /\ Kicked(ui') => ready
            /\ ~ready => /\ ~ui'.run_enabled
                         /\ ui'.kickoffs = 0
                         /\ analysis_history' = analysis_history ]_vars

\* C1 witness: crew.kickoff was called for a name with surrounding blanks
C1_Witness ==
    /\ Kicked(ui)
    /\ CredentialsValid(env)
    /\ company_name = <<" ", "A", " ", "B">>

KeyUnset(k) == env[k] = None
KeyUnusable(k) == env[k] = None \/ env[k] = ""

\* C2 as stated: missing_keys is exactly the required names that are absent from
\* the environment, in the fixed order, and api_valid iff it is empty.
C2_MissingAreAbsent ==
    /\ ui.missing_keys = SelectSeq(required_keys, KeyUnset)
    /\ ui.api_valid <=> (ui.missing_keys = <<>>)

\* C2 amended: missing_keys is exactly the required names that are unset or set
\* to the empty string, in the fixed order and without duplicates, and api_valid
\* iff it is empty.
C2_MissingAreUnusable ==
    /\ ui.missing_keys = SelectSeq(required_keys, KeyUnusable)
    /\ \A i, j \in 1..Len(ui.missing_keys) : i # j => ui.missing_keys[i] # ui.missing_keys[j]
    /\ ui.api_valid <=> (ui.missing_keys = <<>>)

\* C2 witness: one key is set to the empty string, the other is usable
C2_Witness ==
    /\ env["GEMINI_API_KEY"] = "sk-1"
    /\ env["SERPER_API_KEY"] = ""
    /\ ui.missing_keys = <<"SERPER_API_KEY">>
    /\ ~ui.api_valid

\* C3: a run whose crew.kickoff returned appends exactly one entry to the
\* history; the entry carries the company name as typed and the result text
\* shown, and its duration is >= 0.
C3_OneRecordPerResult ==
    [][ (Kicked(ui') /\ ui'.success) =>
            /\ Len(analysis_history') = Len(analysis_history) + 1
            /\ SubSeq(analysis_history', 1, Len(analysis_history)) = analysis_history
            /\ LET entry == analysis_history'[Len(analysis_history')]
               IN  /\ entry.company = company_name'
                   /\ strip(entry.company) # <<>>
                   /\ <<entry.result>> = ui'.result
                   /\ entry.result = <<"proposal", " for ">> \o company_name'
                   /\ entry.duration >= 0 ]_vars

\* C3 witness: the second recorded run of a session, for a name with blanks
C3_Witness ==
    /\ Kicked(ui) /\ ui.success
    /\ Len(analysis_history) = 2
    /\ analysis_history[2].company = <<" ", "A", " ", "B">>
    /\ analysis_history[2].duration >= 1000

\* a run for the company in the text input, started from the present page,
\* whose crew.kickoff returns and which records an entry
SuccessfulRun ==
    \E o \in RecentOutcomes :
        /\ ClickGenerate(company_name, o, 0)
        /\ Kicked(ui') /\ ui'.success
        /\ Len(analysis_history') = Len(analysis_history) + 1

\* the last script run called crew.kickoff and the call raised
KickoffRaised(page) == Kicked(page) /\ ~page.success

\* C4: when crew.kickoff raises, the error is shown, the history is unchanged,
\* the call was made once (no retry), and the page is back to idle with the run
\* control enabled, from where a further run can be started and can succeed.
C4_KickoffFailureContained ==
    /\ [][ KickoffRaised(ui') =>
            /\ ui'.error
            /\ ui'.kickoffs = 1
            /\ ui'.result = <<>>
            /\ analysis_history' = analysis_history
            /\ ui'.run_enabled ]_vars
    /\ [](KickoffRaised(ui) => ENABLED SuccessfulRun)

\* C4 witness: crew.kickoff raised in a session that already holds an entry
C4_Witness ==
    /\ KickoffRaised(ui)
    /\ ui.error
    /\ Len(analysis_history) = 1

FileAbsent(f) == ~files[f].exists
FileReadable(f) == files[f].exists /\ files[f].utf8
Offered(f) == \E d \in ui.downloads : d.file = f /\ d.data = files[f].text
Rendered(f) == \E r \in ui.rendered : r.file = f /\ r.data = files[f].text

\* C5: after a run whose crew.kickoff returned, with every output file either
\* absent or readable: the page warns about exactly the absent files, every
\* present file is offered for download (and the research and analysis files
\* are rendered), no error is shown and the run's entry is in the history.
C5_WarningPerAbsentArtifact ==
    (Kicked(ui) /\ ui.success /\ \A f \in FileSet : FileAbsent(f) \/ FileReadable(f)) =>
        /\ ui.warnings = {f \in FileSet : FileAbsent(f)}
        /\ \A f \in FileSet : FileReadable(f) => Offered(f)
        /\ \A f \in {ResearchFile, AnalysisFile} : FileReadable(f) => Rendered(f)
        /\ ~ui.error
        /\ analysis_history # <<>>
        /\ analysis_history[Len(analysis_history)].company = company_name

\* C6: the sidebar of a script run shows the last min(5, length) entries of the
\* history it finds, most recent first, and shows the same list again when the
\* script run before it recorded nothing.
C6_RecentView ==
    [][ /\ Len(ui'.sidebar) <= RecentN
        /\ Len(ui'.sidebar) =
              (IF Len(analysis_history) < RecentN THEN Len(analysis_history) ELSE RecentN)
        /\ \A i \in 1..Len(ui'.sidebar) :
              ui'.sidebar[i] = analysis_history[Len(analysis_history) + 1 - i]
        /\ ~(Kicked(ui) /\ ui.success) => ui'.sidebar = ui.sidebar ]_vars

\* C6 witness: six entries recorded, the sidebar shows the five latest, the
\* newest (id 5) first and the oldest shown is id 1
C6_Witness ==
    /\ Len(analysis_history) = 6
    /\ Len(ui.sidebar) = RecentN
    /\ ui.sidebar[1].id = 5
    /\ ui.sidebar[RecentN].id = 1

\* C7: the ids of the history's entries are strictly increasing in append
\* order and pairwise distinct; an entry's id is its index in the list.
C7_IdsIncrease ==
    /\ \A i \in 1..Len(analysis_history) : analysis_history[i].id = i - 1
    /\ \A i, j \in 1..Len(analysis_history) :
          i < j => analysis_history[i].id < analysis_history[j].id
    /\ \A i, j \in 1..Len(analysis_history) :
          i # j => analysis_history[i].id # analysis_history[j].id

\* C7 witness: six entries, for two companies
C7_Witness ==
    /\ Len(analysis_history) = 6
    /\ analysis_history[6].id = 5
    /\ analysis_history[5].company # analysis_history[6].company

\* C8: across every step the old history is a prefix of the new one; it grows
\* only in a run whose crew.kickoff returned, and then by one entry; the entry
\* selected with View Results is an entry of the history.
C8_AppendOnly ==
    [][ /\ Len(analysis_history') >= Len(analysis_history)
        /\ SubSeq(analysis_history', 1, Len(analysis_history)) = analysis_history
        /\ analysis_history' # analysis_history =>
              /\ Kicked(ui') /\ ui'.success
              /\ Len(analysis_history') = Len(analysis_history) + 1
        /\ current_analysis' # <<>> =>
              \E i \in 1..Len(analysis_history') :
                  current_analysis'[1] = analysis_history'[i] ]_vars

\* C8 witness: an entry is selected, an example company was clicked, and a run
\* has just failed in a session that holds an entry
C8_Witness ==
    /\ Len(analysis_history) = 1
    /\ current_analysis = <<analysis_history[1]>>
    /\ example_company # <<>>
    /\ KickoffRaised(ui)

\* the crew handed to crew.kickoff has the three stages in the declared order,
\* each bound to its output file
StagesInOrder(crew) ==
    /\ Len(crew.tasks) = 3 /\ Len(crew.agents) = 3
    /\ \A i \in 1..3 : crew.tasks[i].agent = crew.agents[i]
    /\ crew.agents[1].role = "Senior Market Research Analyst"
    /\ crew.agents[2].role = "AI/ML Strategy Consultant"
    /\ crew.agents[3].role = "Technical Proposal Specialist"
    /\ \A i \in 1..3 : crew.tasks[i].output_file = OutputFiles[i]

C10_ErrorMeansNoRecord ==
    [][ (ui'.view = "run" /\ ui'.error) => analysis_history' = analysis_history ]_vars

\* C11: after a successful run for a company, every artifact text rendered in
\* the tabs or offered for download is text that this run's crew.kickoff
\* wrote (the report for the company of this run, see kickoff_files): a file
\* left on disk by an earlier run is not shown or offered under this
\* company's name.
C11_ArtifactsAreThisRuns ==
    (Kicked(ui) /\ ui.success) =>
        /\ \A r \in ui.rendered  : r.data = company_name
        /\ \A d \in ui.downloads : d.data = company_name

====
